---- MODULE Spec2Model ----
(***************************************************************************)
(* Model of apply_tags.py: the command-line run that parses a list of ARNs *)
(* and a tag string, routes each ARN to a dedicated per-service API or to  *)
(* the bulk Resource Groups Tagging API (in batches of 20), aggregates the *)
(* per-resource failures and exits with 0 or 1.                            *)
(*                                                                         *)
(* A Python string is a sequence of tokens.  A token is one delimiter      *)
(* character (":", ",", "=", " ", "/") or a run of other characters, so    *)
(* that split, strip, startswith and "in" are computed on the sequence.    *)
(* A Python dict is a function; its key set is the DOMAIN.                 *)
(***************************************************************************)
EXTENDS Integers, Sequences, FiniteSets, TLC

(***************************************************************************)
(* Bounds of the explored inputs.                                          *)
(***************************************************************************)
MaxIter == 3
MaxFailKeys == 1

(***************************************************************************)
(* Python string and dict primitives.                                      *)
(***************************************************************************)
\* the value None (never equal to a string that is read from the input)
None == <<"<None>">>

EmptyDict == [k \in {} |-> None]

DictPut(d, k, v) == [x \in (DOMAIN d) \cup {k} |-> IF x = k THEN v ELSE d[x]]

\* dict.update(other): keys of other take other's value
DictUpdate(d, other) ==
    [x \in (DOMAIN d) \cup (DOMAIN other) |-> IF x \in DOMAIN other THEN other[x] ELSE d[x]]

Range(s) == {s[i] : i \in 1..Len(s)}

RECURSIVE Flatten(_)
Flatten(ss) == IF ss = <<>> THEN <<>> ELSE Head(ss) \o Flatten(Tail(ss))

\* str.startswith(prefix)
StartsWith(s, prefix) ==
    /\ Len(s) >= Len(prefix)
    /\ SubSeq(s, 1, Len(prefix)) = prefix

\* index of the first occurrence of sep in s, 0 when there is none (str.find + 1)
Find(s, sep) ==
    LET hits == {j \in 1..(Len(s) - Len(sep) + 1) : SubSeq(s, j, j + Len(sep) - 1) = sep}
    IN  IF hits = {} THEN 0 ELSE CHOOSE j \in hits : \A h \in hits : j <= h

\* sep in s
Contains(s, sep) == Find(s, sep) # 0

\* str.split(sep): left to right, non-overlapping, empty pieces kept
RECURSIVE Split(_, _)
Split(s, sep) ==
    LET j == Find(s, sep)
    IN  IF j = 0 THEN <<s>>
        ELSE <<SubSeq(s, 1, j - 1)>> \o Split(SubSeq(s, j + Len(sep), Len(s)), sep)

\* str.split(sep, 1) for a string that contains sep
Split1(s, sep) ==
    LET j == Find(s, sep)
    IN  <<SubSeq(s, 1, j - 1), SubSeq(s, j + Len(sep), Len(s))>>

RECURSIVE LStrip(_)
LStrip(s) == IF s # <<>> /\ Head(s) = " " THEN LStrip(Tail(s)) ELSE s

RECURSIVE RStrip(_)
RStrip(s) == IF s # <<>> /\ s[Len(s)] = " " THEN RStrip(SubSeq(s, 1, Len(s) - 1)) ELSE s

\* str.strip()
Strip(s) == RStrip(LStrip(s))

RECURSIVE Join(_, _)
Join(ss, sep) ==
    IF ss = <<>> THEN <<>>
    ELSE IF Len(ss) = 1 THEN ss[1]
    ELSE ss[1] \o sep \o Join(Tail(ss), sep)

(***************************************************************************)
(* apply_tags.py, lines 16-38: the parsers.                                *)
(***************************************************************************)
RECURSIVE parse_pairs(_, _)
parse_pairs(pairs, tags) ==
    IF pairs = <<>> THEN tags
    ELSE LET tag_pair == Head(pairs)
         IN  IF Contains(tag_pair, <<"=">>)
             THEN LET kv == Split1(tag_pair, <<"=">>)
                  IN  parse_pairs(Tail(pairs), DictPut(tags, Strip(kv[1]), Strip(kv[2])))
             ELSE parse_pairs(Tail(pairs), tags)

parse_tags(tags_string) ==
    IF tags_string = <<>> THEN EmptyDict
    ELSE parse_pairs(Split(tags_string, <<",">>), EmptyDict)

validate_arn(arn) == StartsWith(arn, <<"arn", ":", "aws", ":">>)

get_service_from_arn(arn) ==
    LET parts == Split(arn, <<":">>)
    IN  IF Len(parts) >= 3 THEN parts[3] ELSE None

(***************************************************************************)
(* The remote services.  Every remote call ends in one of three ways: it   *)
(* returns ("ok", with a body), it raises botocore's ClientError (with an  *)
(* error code and message), or it raises an exception of another class     *)
(* ("Exception": connection, parameter validation, credentials).           *)
(***************************************************************************)
Ok(body) == [kind |-> "ok", Code |-> <<>>, Message |-> <<>>, body |-> body]

ClientError(code, message) ==
    [kind |-> "ClientError", Code |-> code, Message |-> message, body |-> <<>>]

OtherException(message) ==
    [kind |-> "Exception", Code |-> <<>>, Message |-> message, body |-> <<>>]

\* str(e)
ExcStr(r) ==
    IF r.kind = "ClientError"
    THEN <<"An error occurred (">> \o r.Code \o <<")", ":", " ">> \o r.Message
    ELSE r.Message

ExistingTagSets ==
    { <<[Key |-> <<"env">>, Value |-> <<"prod">>]>>,
      <<[Key |-> <<"env">>, Value |-> <<"prod">>], [Key |-> <<"team">>, Value |-> <<"x">>]>> }

ReadOutcomes ==
    {Ok(ts) : ts \in ExistingTagSets}
    \cup {ClientError(<<"NoSuchTagSet">>, <<"The TagSet does not exist">>),
          ClientError(<<"AccessDenied">>, <<"Access Denied">>),
          OtherException(<<"Could not connect to the endpoint URL">>)}

WriteOutcomes ==
    {Ok(<<>>),
     ClientError(<<"AccessDenied">>, <<"Access Denied">>)}

BulkErrorRecords ==
    {[ErrorCode |-> <<"InvalidParameterException">>, ErrorMessage |-> <<"not taggable">>]}

Min(a, b) == IF a <= b THEN a ELSE b

\* the identifiers of a chunk for which the bulk API may report a failure
FailCandidates(batch_arns) == {batch_arns[i] : i \in 1..Min(MaxFailKeys, Len(batch_arns))}

FailedResourcesMaps(batch_arns) ==
    UNION {[ks -> BulkErrorRecords] : ks \in SUBSET FailCandidates(batch_arns)}

BulkOutcomes(batch_arns) ==
    {Ok(m) : m \in FailedResourcesMaps(batch_arns)}
    \cup {ClientError(<<"ThrottlingException">>, <<"Rate exceeded">>),
          OtherException(<<"Could not connect to the endpoint URL">>)}

Call(api, target, payload, result) ==
    [api |-> api, target |-> target, payload |-> payload, result |-> result]

(***************************************************************************)
(* apply_tags.py, lines 53-102: the dedicated adapter.  first and second   *)
(* are the outcomes of the remote calls it makes, in order.  The value is  *)
(* the boolean it returns, the remote calls it issued and the text of the  *)
(* exception it logged (None when it logged none).                         *)
(***************************************************************************)
\* lines 74-75
RECURSIVE existing_from(_, _)
existing_from(TagSet, existing_tags) ==
    IF TagSet = <<>> THEN existing_tags
    ELSE existing_from(Tail(TagSet), DictPut(existing_tags, Head(TagSet).Key, Head(TagSet).Value))

\* variant of lines 84-85 in which an existing value wins on a key collision
combined_tags_existing_wins(existing_tags, tags) == DictUpdate(tags, existing_tags)

\* lines 84-85
combined_tags(existing_tags, tags) == DictUpdate(existing_tags, tags)

\* lines 88 and 94: the list of Key/Value entries of a dict (order left out)
tag_list(d) == {[Key |-> k, Value |-> d[k]] : k \in DOMAIN d}

\* line 68
bucket_name(arn) == LET parts == Split(arn, <<":", ":", ":">>) IN parts[Len(parts)]

tag_resource_with_service_api(arn, tags, service, first, second) ==
    IF service = <<"appconfig">> THEN
        LET c == Call("appconfig.tag_resource", arn, tags, first)
        IN  IF first.kind = "ok"
            THEN [ret |-> TRUE, calls |-> <<c>>, logged |-> None]
            ELSE [ret |-> FALSE, calls |-> <<c>>, logged |-> ExcStr(first)]
    ELSE IF service = <<"s3">> THEN
        LET rd == Call("s3.get_bucket_tagging", bucket_name(arn), <<>>, first)
        IN  IF first.kind = "Exception"
            THEN [ret |-> FALSE, calls |-> <<rd>>, logged |-> ExcStr(first)]
            ELSE LET existing_tags == IF first.kind = "ok"
                                      THEN existing_from(first.body, EmptyDict)
                                      ELSE EmptyDict
                     wr == Call("s3.put_bucket_tagging", bucket_name(arn),
                                tag_list(combined_tags(existing_tags, tags)), second)
                 IN  IF second.kind = "ok"
                     THEN [ret |-> TRUE, calls |-> <<rd, wr>>, logged |-> None]
                     ELSE [ret |-> FALSE, calls |-> <<rd, wr>>, logged |-> ExcStr(second)]
    ELSE IF service = <<"route53resolver">> THEN
        LET c == Call("route53resolver.tag_resource", arn, tag_list(tags), first)
        IN  IF first.kind = "ok"
            THEN [ret |-> TRUE, calls |-> <<c>>, logged |-> None]
            ELSE [ret |-> FALSE, calls |-> <<c>>, logged |-> ExcStr(first)]
    ELSE [ret |-> FALSE, calls |-> <<>>, logged |-> None]

\* the outcomes the remote side can give to the adapter's calls
FirstOutcomes(service) == IF service = <<"s3">> THEN ReadOutcomes ELSE WriteOutcomes

SecondOutcomes(service, first) ==
    IF service = <<"s3">> /\ first.kind # "Exception" THEN WriteOutcomes ELSE {Ok(<<>>)}

(***************************************************************************)
(* The command lines explored.  --resource-arns is a comma-separated list: *)
(* a run of distinct bulk-eligible ARNs with a short list of other entries *)
(* (dedicated-service ARNs, a repeated ARN, a string that is no ARN, a     *)
(* blank entry) put before or after it.                                    *)
(***************************************************************************)
BATCH_SIZE == 20

unsupported_services == {<<"s3">>, <<"appconfig">>, <<"route53resolver">>}

S3Arn == <<"arn", ":", "aws", ":", "s3", ":", ":", ":", "bucket1">>

AppConfigArn ==
    <<"arn", ":", "aws", ":", "appconfig", ":", "r", ":", "1", ":", "application", "/", "a1">>

ResolverArn ==
    <<"arn", ":", "aws", ":", "route53resolver", ":", "r", ":", "1", ":", "resolver-rule", "/", "rr1">>

BulkArn(k) ==
    <<"arn", ":", "aws", ":", "ec2", ":", "r", ":", "1", ":", "instance", "/", "i-" \o ToString(k)>>

NotAnArn == <<"not-an-arn">>

Blank == <<" ">>

\* the entries put around the run of bulk-eligible ARNs: none, one, or one of a few pairs
OddLists ==
    { <<>>,
      << <<" ">> \o S3Arn >>, <<AppConfigArn>>, <<ResolverArn>>, <<BulkArn(1)>>,
      <<NotAnArn>>, <<Blank>>,
      << <<" ">> \o S3Arn, S3Arn >>,
      <<ResolverArn, S3Arn>>,
      <<AppConfigArn, BulkArn(1)>>,
      <<Blank, NotAnArn>> }

NumBulk == {0, BATCH_SIZE, BATCH_SIZE + 1, 2 * BATCH_SIZE + 5}

NumChunks(n) == (n + BATCH_SIZE - 1) \div BATCH_SIZE

BulkRun(from, to) == [i \in 1..(to - from + 1) |-> BulkArn(from + i - 1)]

ArnLists ==
    { IF front THEN odd \o BulkRun(1, nb) ELSE BulkRun(1, nb) \o odd :
        <<odd, nb, front>> \in
          { t \in OddLists \X NumBulk \X BOOLEAN : Len(t[1]) + NumChunks(t[2]) <= MaxIter } }

ArnArgs == {Join(l, <<",">>) : l \in ArnLists}

TagArgs ==
    { <<"owner", "=", "team-a">>,
      <<" ", "env", " ", "=", " ", "staging", " ", ",", "bad">>,
      <<"bad">>,
      <<>> }

(***************************************************************************)
(* The state of one run.                                                   *)
(***************************************************************************)
VARIABLES
    pc,                     \* where the run is
    args,                   \* the parsed command line: resource_arns and tags, as given
    resource_arns,          \* main, line 256
    tags,                   \* main, line 271
    resource_groups_arns,   \* line 125
    service_specific_arns,  \* line 126
    next_specific,          \* position of the loop of line 149
    batches,                \* line 165
    batch_num,              \* position of the loop of line 171
    total_success_count,    \* line 145
    total_failed,           \* line 146
    success,                \* the value apply_tags_to_resources returned ("unset" before)
    exit_code,              \* sys.exit
    remote_calls,           \* the remote calls issued, in order
    adapter_log             \* one entry per run of the dedicated adapter

vars == <<pc, args, resource_arns, tags, resource_groups_arns, service_specific_arns,
          next_specific, batches, batch_num, total_success_count, total_failed,
          success, exit_code, remote_calls, adapter_log>>

Init ==
    /\ pc = "main"
    /\ args \in [resource_arns : ArnArgs, tags : TagArgs]
    /\ resource_arns = <<>>
    /\ tags = EmptyDict
    /\ resource_groups_arns = <<>>
    /\ service_specific_arns = <<>>
    /\ next_specific = 1
    /\ batches = <<>>
    /\ batch_num = 1
    /\ total_success_count = 0
    /\ total_failed = EmptyDict
    /\ success = "unset"
    /\ exit_code = None
    /\ remote_calls = <<>>
    /\ adapter_log = <<>>

(***************************************************************************)
(* main, lines 246-278.                                                    *)
(***************************************************************************)
\* line 256
split_arns(arg) ==
    LET pieces == Split(arg, <<",">>)
        stripped == [i \in 1..Len(pieces) |-> Strip(pieces[i])]
        NonEmpty(a) == a # <<>>
    IN  SelectSeq(stripped, NonEmpty)

\* line 263
invalid_arns(arns) == LET Invalid(a) == ~validate_arn(a) IN SelectSeq(arns, Invalid)

\* variant of line 129 that leaves route53resolver out of the set
ServiceSpecific_without_resolver(arn) ==
    get_service_from_arn(arn) \in {<<"s3">>, <<"appconfig">>}

\* lines 131-136
ServiceSpecific(arn) == get_service_from_arn(arn) \in unsupported_services

service_specific_of(arns) == SelectSeq(arns, ServiceSpecific)

resource_groups_of(arns) == LET Bulk(a) == ~ServiceSpecific(a) IN SelectSeq(arns, Bulk)

Exit(code) ==
    /\ pc' = "exit"
    /\ exit_code' = code

\* lines 256-260
MainNoArns ==
    /\ pc = "main"
    /\ split_arns(args.resource_arns) = <<>>
    /\ resource_arns' = split_arns(args.resource_arns)
    /\ Exit(1)
    /\ UNCHANGED <<args, tags, resource_groups_arns, service_specific_arns, next_specific,
                   batches, batch_num, total_success_count, total_failed, success,
                   remote_calls, adapter_log>>

\* lines 256-268
MainInvalidArns ==
    /\ pc = "main"
    /\ split_arns(args.resource_arns) # <<>>
    /\ invalid_arns(split_arns(args.resource_arns)) # <<>>
    /\ resource_arns' = split_arns(args.resource_arns)
    /\ Exit(1)
    /\ UNCHANGED <<args, tags, resource_groups_arns, service_specific_arns, next_specific,
                   batches, batch_num, total_success_count, total_failed, success,
                   remote_calls, adapter_log>>

\* lines 256-275
MainNoTags ==
    /\ pc = "main"
    /\ split_arns(args.resource_arns) # <<>>
    /\ invalid_arns(split_arns(args.resource_arns)) = <<>>
    /\ parse_tags(args.tags) = EmptyDict
    /\ resource_arns' = split_arns(args.resource_arns)
    /\ tags' = parse_tags(args.tags)
    /\ Exit(1)
    /\ UNCHANGED <<args, resource_groups_arns, service_specific_arns, next_specific,
                   batches, batch_num, total_success_count, total_failed, success,
                   remote_calls, adapter_log>>

\* lines 256-278 and, in apply_tags_to_resources, lines 109-146
MainApply ==
    /\ pc = "main"
    /\ split_arns(args.resource_arns) # <<>>
    /\ invalid_arns(split_arns(args.resource_arns)) = <<>>
    /\ parse_tags(args.tags) # EmptyDict
    /\ resource_arns' = split_arns(args.resource_arns)
    /\ tags' = parse_tags(args.tags)
    /\ resource_groups_arns' = resource_groups_of(resource_arns')
    /\ service_specific_arns' = service_specific_of(resource_arns')
    /\ total_success_count' = 0
    /\ total_failed' = EmptyDict
    /\ next_specific' = 1
    /\ pc' = "specific"
    /\ UNCHANGED <<args, batches, batch_num, success, exit_code, remote_calls, adapter_log>>

(***************************************************************************)
(* apply_tags_to_resources, lines 148-244.                                 *)
(***************************************************************************)
\* variant of lines 157-160 that records the failure under the code of a bulk error
specific_failure_other_code(service) ==
    [ErrorCode |-> <<"InternalServiceException">>,
     ErrorMessage |-> <<"Error usando API específica de ">> \o service]

\* lines 157-160
specific_failure(service) ==
    [ErrorCode |-> <<"ServiceSpecificAPIError">>,
     ErrorMessage |-> <<"Error usando API específica de ">> \o service]

\* lines 149-161: one resource of the dedicated path
SpecificStep ==
    /\ pc = "specific"
    /\ next_specific <= Len(service_specific_arns)
    /\ LET arn == service_specific_arns[next_specific]
           service == get_service_from_arn(arn)
       IN  \E first \in FirstOutcomes(service) :
           \E second \in SecondOutcomes(service, first) :
             LET r == tag_resource_with_service_api(arn, tags, service, first, second)
             IN  /\ IF r.ret
                    THEN /\ total_success_count' = total_success_count + 1
                         /\ UNCHANGED total_failed
                    ELSE /\ total_failed' = DictPut(total_failed, arn, specific_failure(service))
                         /\ UNCHANGED total_success_count
                 /\ remote_calls' = remote_calls \o r.calls
                 /\ adapter_log' = Append(adapter_log,
                        [arn |-> arn, service |-> service, ret |-> r.ret,
                         logged |-> r.logged, calls |-> r.calls])
    /\ next_specific' = next_specific + 1
    /\ UNCHANGED <<pc, args, resource_arns, tags, resource_groups_arns, service_specific_arns,
                   batches, batch_num, success, exit_code>>

\* range(start, stop, step)
RECURSIVE range(_, _, _)
range(start, stop, step) ==
    IF start >= stop THEN <<>> ELSE <<start>> \o range(start + step, stop, step)

\* s[i:j]
slice(s, i, j) == SubSeq(s, i + 1, Min(j, Len(s)))

\* line 165
make_batches(arns) ==
    LET starts == range(0, Len(arns), BATCH_SIZE)
    IN  [b \in 1..Len(starts) |-> slice(arns, starts[b], starts[b] + BATCH_SIZE)]

\* lines 163-168: the dedicated loop is over, the bulk-eligible list is cut into batches
MakeBatches ==
    /\ pc = "specific"
    /\ next_specific > Len(service_specific_arns)
    /\ batches' = IF resource_groups_arns # <<>> THEN make_batches(resource_groups_arns) ELSE <<>>
    /\ batch_num' = 1
    /\ pc' = "batches"
    /\ UNCHANGED <<args, resource_arns, tags, resource_groups_arns, service_specific_arns,
                   next_specific, total_success_count, total_failed, success, exit_code,
                   remote_calls, adapter_log>>

BulkCall(batch_arns, result) == Call("tag_resources", batch_arns, tags, result)

\* lines 204-209
RECURSIVE mark_failed(_, _, _)
mark_failed(failed, arns, record) ==
    IF arns = <<>> THEN failed
    ELSE mark_failed(DictPut(failed, Head(arns), record), Tail(arns), record)

\* lines 176-197: the bulk call of one batch returns
BatchResponse ==
    /\ pc = "batches"
    /\ batch_num <= Len(batches)
    /\ LET batch_arns == batches[batch_num]
       IN  \E response \in {o \in BulkOutcomes(batch_arns) : o.kind = "ok"} :
             LET batch_failed == response.body
                 batch_success_count == Len(batch_arns) - Cardinality(DOMAIN batch_failed)
             IN  /\ total_success_count' = total_success_count + batch_success_count
                 /\ total_failed' = DictUpdate(total_failed, batch_failed)
                 /\ remote_calls' = Append(remote_calls, BulkCall(batch_arns, response))
    /\ batch_num' = batch_num + 1
    /\ UNCHANGED <<pc, args, resource_arns, tags, resource_groups_arns, service_specific_arns,
                   next_specific, batches, success, exit_code, adapter_log>>

\* lines 176-179 and 199-209: the bulk call of one batch raises ClientError
BatchClientError ==
    /\ pc = "batches"
    /\ batch_num <= Len(batches)
    /\ LET batch_arns == batches[batch_num]
       IN  \E e \in {o \in BulkOutcomes(batch_arns) : o.kind = "ClientError"} :
             /\ total_failed' = mark_failed(total_failed, batch_arns,
                                   [ErrorCode |-> e.Code, ErrorMessage |-> e.Message])
             /\ remote_calls' = Append(remote_calls, BulkCall(batch_arns, e))
    /\ batch_num' = batch_num + 1
    /\ UNCHANGED <<pc, args, resource_arns, tags, resource_groups_arns, service_specific_arns,
                   next_specific, batches, total_success_count, success, exit_code,
                   adapter_log>>

\* lines 176-179 and 242-244: the bulk call of one batch raises another exception,
\* which only the handler of the whole function catches
BatchException ==
    /\ pc = "batches"
    /\ batch_num <= Len(batches)
    /\ LET batch_arns == batches[batch_num]
       IN  \E e \in {o \in BulkOutcomes(batch_arns) : o.kind = "Exception"} :
             remote_calls' = Append(remote_calls, BulkCall(batch_arns, e))
    /\ success' = "False"
    /\ pc' = "returned"
    /\ UNCHANGED <<args, resource_arns, tags, resource_groups_arns, service_specific_arns,
                   next_specific, batches, batch_num, total_success_count, total_failed,
                   exit_code, adapter_log>>

\* lines 211-229
Summary ==
    /\ pc = "batches"
    /\ batch_num > Len(batches)
    /\ success' = IF Cardinality(DOMAIN total_failed) = 0 THEN "True" ELSE "False"
    /\ pc' = "returned"
    /\ UNCHANGED <<args, resource_arns, tags, resource_groups_arns, service_specific_arns,
                   next_specific, batches, batch_num, total_success_count, total_failed,
                   exit_code, remote_calls, adapter_log>>

\* variant of lines 280-286 that exits with 0 whatever was returned
MainExit_always_zero ==
    /\ pc = "returned"
    /\ Exit(0)
    /\ UNCHANGED <<args, resource_arns, tags, resource_groups_arns, service_specific_arns,
                   next_specific, batches, batch_num, total_success_count, total_failed,
                   success, remote_calls, adapter_log>>

\* lines 278-286
MainExit ==
    /\ pc = "returned"
    /\ Exit(IF success = "True" THEN 0 ELSE 1)
    /\ UNCHANGED <<args, resource_arns, tags, resource_groups_arns, service_specific_arns,
                   next_specific, batches, batch_num, total_success_count, total_failed,
                   success, remote_calls, adapter_log>>

Next ==
    \/ MainNoArns
    \/ MainInvalidArns
    \/ MainNoTags
    \/ MainApply
    \/ SpecificStep
    \/ MakeBatches
    \/ BatchResponse
    \/ BatchClientError
    \/ BatchException
    \/ Summary
    \/ MainExit

Spec == Init /\ [][Next]_vars

\* the runs in which every exception raised by a bulk call is a ClientError
NextHandled ==
    \/ MainNoArns
    \/ MainInvalidArns
    \/ MainNoTags
    \/ MainApply
    \/ SpecificStep
    \/ MakeBatches
    \/ BatchResponse
    \/ BatchClientError
    \/ Summary
    \/ MainExit

SpecHandled == Init /\ [][NextHandled]_vars

TypeOK ==
    /\ pc \in {"main", "specific", "batches", "returned", "exit"}
    /\ success \in {"unset", "True", "False"}
    /\ pc = "exit" => exit_code \in {0, 1}
    /\ total_success_count \in 0..Len(resource_arns)

(***************************************************************************)
(* Observations used by the properties.                                    *)
(***************************************************************************)
\* apply_tags_to_resources has returned
Returned == pc = "returned" \/ (pc = "exit" /\ success # "unset")

\* apply_tags_to_resources has been entered
Dispatched == pc \in {"specific", "batches", "returned"} \/ (pc = "exit" /\ success # "unset")

IsBulkCall(c) == c.api = "tag_resources"

BulkCalls == SelectSeq(remote_calls, IsBulkCall)

\* the 3rd colon-delimited segment of an identifier that starts with "arn:aws:":
\* what lies between its 2nd colon and its 3rd colon (or its end)
Segment3(arn) ==
    LET colons == {j \in 1..Len(arn) : arn[j] = ":"}
        Nth(n) == CHOOSE j \in colons : Cardinality({k \in colons : k < j}) = n - 1
        stop == IF Cardinality(colons) >= 3 THEN Nth(3) ELSE Len(arn) + 1
    IN  SubSeq(arn, Nth(2) + 1, stop - 1)

Excluded(arn) == Segment3(arn) \in {<<"s3">>, <<"appconfig">>, <<"route53resolver">>}

NotExcluded(arn) == ~Excluded(arn)

CeilDiv(n, d) == IF n % d = 0 THEN n \div d ELSE (n \div d) + 1

RECURSIVE SumSeq(_)
SumSeq(s) == IF s = <<>> THEN 0 ELSE Head(s) + SumSeq(Tail(s))

(***************************************************************************)
(* C1: when apply_tags_to_resources has returned, every input identifier   *)
(* is accounted for exactly once: the success count plus the number of     *)
(* entries of the failure map is the number of input identifiers.          *)
(* Checked on the runs of SpecHandled, where no bulk call abandons the     *)
(* run: it fails there for a list with a repeated identifier.              *)
(***************************************************************************)
C1_EveryIdentifierAccountedOnce ==
    Returned =>
        total_success_count + Cardinality(DOMAIN total_failed) = Len(resource_arns)

(***************************************************************************)
(* C2: when the run has returned, the bulk calls issued are exactly        *)
(* ceil(n/20) for the n bulk-eligible identifiers, each carries at most 20 *)
(* identifiers, every one but the last exactly 20, and the chunks in call  *)
(* order, concatenated, are the bulk-eligible list.                        *)
(***************************************************************************)
C2_CeilChunksIssued ==
    Returned =>
        /\ Len(BulkCalls) = CeilDiv(Len(resource_groups_arns), 20)
        /\ \A i \in 1..Len(BulkCalls) :
              /\ Len(BulkCalls[i].target) <= 20
              /\ i < Len(BulkCalls) => Len(BulkCalls[i].target) = 20
        /\ Flatten([i \in 1..Len(BulkCalls) |-> BulkCalls[i].target]) = resource_groups_arns

(***************************************************************************)
(* C3: when the run has returned, every identifier of a chunk whose bulk   *)
(* call raised an exception is in the failure map with the exception's     *)
(* error code and message, and the success count is what the dedicated     *)
(* path and the chunks that returned a response contributed.               *)
(***************************************************************************)
C3_RaisedChunkAllFailed ==
    Returned =>
        /\ \A i \in 1..Len(BulkCalls) :
              BulkCalls[i].result.kind # "ok" =>
                 \A arn \in Range(BulkCalls[i].target) :
                    /\ arn \in DOMAIN total_failed
                    /\ total_failed[arn] = [ErrorCode |-> BulkCalls[i].result.Code,
                                            ErrorMessage |-> BulkCalls[i].result.Message]
        /\ total_success_count =
              Cardinality({i \in 1..Len(adapter_log) : adapter_log[i].ret})
              + SumSeq([i \in 1..Len(BulkCalls) |->
                          IF BulkCalls[i].result.kind = "ok"
                          THEN Len(BulkCalls[i].target)
                               - Cardinality(DOMAIN BulkCalls[i].result.body)
                          ELSE 0])

(***************************************************************************)
(* C4: the value apply_tags_to_resources returns is True if and only if    *)
(* the failure map is empty when it returns.                               *)
(***************************************************************************)
C4_TrueIffNoFailures ==
    Returned => (success = "True" <=> DOMAIN total_failed = {})

(***************************************************************************)
(* C5: when the run has returned, every dedicated-path resource has had    *)
(* exactly one adapter invocation and every chunk of the bulk-eligible     *)
(* list exactly one bulk call, whatever calls failed.                      *)
(***************************************************************************)
C5_AllItemsProcessedOnce ==
    Returned =>
        /\ [i \in 1..Len(adapter_log) |-> adapter_log[i].arn] = service_specific_arns
        /\ [i \in 1..Len(BulkCalls) |-> BulkCalls[i].target] = batches
        /\ Flatten(batches) = resource_groups_arns

(***************************************************************************)
(* C6: every run of the s3 adapter that read an existing tag set E issued  *)
(* exactly one write; the written tag set has one entry for each key of E  *)
(* or of the new tags N, with N's value for a key of N and E's value for   *)
(* any other key.                                                          *)
(***************************************************************************)
IsPut(c) == c.api = "s3.put_bucket_tagging"

ReadOk(e) == e.service = <<"s3">> /\ e.calls[1].result.kind = "ok"

C6_MergedWrite ==
    \A i \in 1..Len(adapter_log) :
        ReadOk(adapter_log[i]) =>
            LET E == adapter_log[i].calls[1].result.body
                writes == SelectSeq(adapter_log[i].calls, IsPut)
                W == writes[1].payload
                KeysE == {E[j].Key : j \in 1..Len(E)}
            IN  /\ Len(writes) = 1
                /\ {w.Key : w \in W} = KeysE \cup DOMAIN tags
                /\ Cardinality(W) = Cardinality(KeysE \cup DOMAIN tags)
                /\ \A w \in W :
                      IF w.Key \in DOMAIN tags
                      THEN w.Value = tags[w.Key]
                      ELSE \E j \in 1..Len(E) : E[j].Key = w.Key /\ E[j].Value = w.Value

\* an existing tag set with a key the new tags override and a key they leave alone
C6_Witness ==
    \E i \in 1..Len(adapter_log) :
        /\ ReadOk(adapter_log[i])
        /\ LET E == adapter_log[i].calls[1].result.body
           IN  /\ \E j \in 1..Len(E) : E[j].Key \in DOMAIN tags /\ E[j].Value # tags[E[j].Key]
               /\ \E j \in 1..Len(E) : E[j].Key \notin DOMAIN tags
        /\ Len(adapter_log[i].calls) = 2

(***************************************************************************)
(* C7: in every run of the s3 adapter in which reading the existing tags   *)
(* raised an exception, the write of the new tags alone is still issued    *)
(* and the adapter's result is the result of that write.                   *)
(***************************************************************************)
C7_ReadErrorTolerated ==
    \A i \in 1..Len(adapter_log) :
        (adapter_log[i].service = <<"s3">> /\ adapter_log[i].calls[1].result.kind # "ok") =>
            LET writes == SelectSeq(adapter_log[i].calls, IsPut)
            IN  /\ Len(writes) = 1
                /\ writes[1].payload = {[Key |-> k, Value |-> tags[k]] : k \in DOMAIN tags}
                /\ adapter_log[i].ret = (writes[1].result.kind = "ok")

(***************************************************************************)
(* C8: once the dispatcher has run, the dedicated list is the input list   *)
(* restricted to the identifiers whose 3rd segment is s3, appconfig or     *)
(* route53resolver and the bulk list is the input list restricted to the   *)
(* others, so every input identifier is in exactly one of them; no bulk    *)
(* call carries an identifier of an excluded service and no dedicated call *)
(* is made for another service.                                            *)
(***************************************************************************)
C8_Routing ==
    Dispatched =>
        /\ service_specific_arns = SelectSeq(resource_arns, Excluded)
        /\ resource_groups_arns = SelectSeq(resource_arns, NotExcluded)
        /\ \A i \in 1..Len(BulkCalls) :
              \A arn \in Range(BulkCalls[i].target) : ~Excluded(arn)
        /\ \A i \in 1..Len(adapter_log) : Excluded(adapter_log[i].arn)

\* a finished run that made dedicated calls and a bulk call
C8_Witness ==
    /\ Returned
    /\ Len(BulkCalls) >= 1
    /\ \E i, j \in 1..Len(adapter_log) :
          /\ Segment3(adapter_log[i].arn) = <<"route53resolver">>
          /\ Segment3(adapter_log[j].arn) = <<"s3">>

(***************************************************************************)
(* C9 as stated: when a dedicated call raised an exception, the            *)
(* resource's entry in the failure map carries the generic error code and, *)
(* as its message, the message of the exception.                           *)
(***************************************************************************)
C9_ExceptionMessageRecorded ==
    \A i \in 1..Len(adapter_log) :
        adapter_log[i].logged # None =>
            /\ adapter_log[i].arn \in DOMAIN total_failed
            /\ total_failed[adapter_log[i].arn].ErrorCode = <<"ServiceSpecificAPIError">>
            /\ total_failed[adapter_log[i].arn].ErrorMessage = adapter_log[i].logged

(***************************************************************************)
(* C9 amended: when a dedicated call raised an exception, the resource's   *)
(* entry in the failure map carries the code ServiceSpecificAPIError and a *)
(* fixed message that names the service; the exception's message is only   *)
(* logged.                                                                 *)
(***************************************************************************)
C9_GenericFailureRecorded ==
    \A i \in 1..Len(adapter_log) :
        adapter_log[i].logged # None =>
            /\ adapter_log[i].arn \in DOMAIN total_failed
            /\ total_failed[adapter_log[i].arn] =
                  [ErrorCode |-> <<"ServiceSpecificAPIError">>,
                   ErrorMessage |-> <<"Error usando API específica de ">>
                                     \o Segment3(adapter_log[i].arn)]

\* a dedicated call raised, and a later chunk of the same run failed too
C9_Witness ==
    /\ \E i \in 1..Len(adapter_log) : adapter_log[i].logged # None
    /\ \E i \in 1..Len(BulkCalls) : BulkCalls[i].result.kind = "ClientError"

(***************************************************************************)
(* C10: the process exits with 0 iff every resource was tagged; with an    *)
(* empty identifier list, an identifier that does not start with           *)
(* "arn:aws:" or a tag string that yields no tags it exits with 1 and no   *)
(* remote call has been issued.                                            *)
(***************************************************************************)
TaggedByAdapter(arn) ==
    /\ \E i \in 1..Len(adapter_log) : adapter_log[i].arn = arn
    /\ \A i \in 1..Len(adapter_log) :
          adapter_log[i].arn = arn =>
             \E j \in 1..Len(adapter_log[i].calls) :
                /\ adapter_log[i].calls[j].api # "s3.get_bucket_tagging"
                /\ adapter_log[i].calls[j].result.kind = "ok"

TaggedByBulk(arn) ==
    /\ \E i \in 1..Len(BulkCalls) : arn \in Range(BulkCalls[i].target)
    /\ \A i \in 1..Len(BulkCalls) :
          arn \in Range(BulkCalls[i].target) =>
             /\ BulkCalls[i].result.kind = "ok"
             /\ arn \notin DOMAIN BulkCalls[i].result.body

EveryResourceTagged ==
    /\ resource_arns # <<>>
    /\ \A arn \in Range(resource_arns) : TaggedByAdapter(arn) \/ TaggedByBulk(arn)

HasArnPrefix(a) == Len(a) >= 4 /\ a[1] = "arn" /\ a[2] = ":" /\ a[3] = "aws" /\ a[4] = ":"

RejectedInput ==
    \/ resource_arns = <<>>
    \/ \E i \in 1..Len(resource_arns) : ~HasArnPrefix(resource_arns[i])
    \/ DOMAIN parse_tags(args.tags) = {}

C10_ExitCode ==
    pc = "exit" =>
        /\ exit_code \in {0, 1}
        /\ exit_code = 0 <=> EveryResourceTagged
        /\ RejectedInput => (exit_code = 1 /\ remote_calls = <<>> /\ adapter_log = <<>>)

\* a run that exits with 0 after dedicated calls and two bulk calls
C10_Witness ==
    /\ pc = "exit"
    /\ exit_code = 0
    /\ Len(BulkCalls) = 2
    /\ adapter_log # <<>>

====
